---- MODULE Spec2Model ----
(***************************************************************************)
(* LegacyDataProcessor (src/test-files/sample.py): a dispatcher that       *)
(* applies one of several transformation routines to a semi-structured     *)
(* payload and memoizes the result in a TTL- and size-bounded cache.       *)
(*                                                                         *)
(* Payloads are tagged records [t, v]:                                     *)
(*   null   [t |-> "null",  v |-> 0]                                       *)
(*   bool   [t |-> "bool",  v |-> TRUE]                                    *)
(*   int    [t |-> "int",   v |-> 3]                                       *)
(*   float  [t |-> "float", v |-> <<m, e>>]      the decimal m / 10^e      *)
(*   str    [t |-> "str",   v |-> "text"]                                  *)
(*   list   [t |-> "list",  v |-> <<p1, ..., pn>>]                         *)
(*   dict   [t |-> "dict",  v |-> << <<k1, p1>>, ..., <<kn, pn>> >>]       *)
(* A dict keeps its items in insertion order, as a Python dict does.       *)
(***************************************************************************)
EXTENDS Integers, Sequences, FiniteSets, TLC

(***************************************************************************)
(* Payload constructors and the Python type tests the routines branch on.  *)
(***************************************************************************)
PNull == [t |-> "null", v |-> 0]
PBool(b) == [t |-> "bool", v |-> b]
PInt(n) == [t |-> "int", v |-> n]
PFloat(m, e) == [t |-> "float", v |-> <<m, e>>]
PStr(s) == [t |-> "str", v |-> s]
PList(xs) == [t |-> "list", v |-> xs]
PDict(items) == [t |-> "dict", v |-> items]
\* Not a payload: the exception a routine raised instead of returning.
PRaise(name) == [t |-> "raise", v |-> name]

\* isinstance(x, (int, float)): bool is a subclass of int in Python.
IsNumberInstance(x) == x.t \in {"int", "float", "bool"}

\* Python truthiness, the test behind `not data`.
Truthy(x) ==
  CASE x.t = "null" -> FALSE
    [] x.t = "bool" -> x.v
    [] x.t = "int" -> x.v # 0
    [] x.t = "float" -> x.v[1] # 0
    [] x.t = "str" -> x.v # ""
    [] OTHER -> Len(x.v) > 0

(***************************************************************************)
(* Strings: the str methods and the parsers the routines call, computed    *)
(* character by character.                                                 *)
(***************************************************************************)
\* s[a:b] and s[i] by 1-based inclusive positions; empty outside the string.
Slice(s, a, b) ==
  IF a < 1 \/ a > b \/ a > Len(s) THEN ""
  ELSE SubSeq(s, a, IF b > Len(s) THEN Len(s) ELSE b)
Ch(s, i) == Slice(s, i, i)
UpperChars == "ABCDEFGHIJKLMNOPQRSTUVWXYZ"
LowerChars == "abcdefghijklmnopqrstuvwxyz"
DigitChars == "0123456789"
IsUpperCh(c) == \E i \in 1..Len(UpperChars) : Ch(UpperChars, i) = c
IsLowerCh(c) == \E i \in 1..Len(LowerChars) : Ch(LowerChars, i) = c
IsDigitCh(c) == \E i \in 1..Len(DigitChars) : Ch(DigitChars, i) = c
IsSpaceCh(c) == c \in {" ", "\t", "\n", "\r"}
\* Characters str.isdigit() accepts and int() does not: the superscript
\* digits, of Unicode numeric type Digit but not Decimal.
IsSuperscriptCh(c) == c \in {"¹", "²", "³"}
LowerCh(c) ==
  IF IsUpperCh(c)
  THEN Ch(LowerChars, CHOOSE i \in 1..Len(UpperChars) : Ch(UpperChars, i) = c)
  ELSE c
DigitVal(c) == (CHOOSE i \in 1..Len(DigitChars) : Ch(DigitChars, i) = c) - 1

\* str.lower()
RECURSIVE StrLower(_)
StrLower(s) == IF s = "" THEN "" ELSE LowerCh(Head(s)) \o StrLower(Tail(s))

\* str.strip()
RECURSIVE LStrip(_)
LStrip(s) == IF s # "" /\ IsSpaceCh(Head(s)) THEN LStrip(Tail(s)) ELSE s
RECURSIVE RStrip(_)
RStrip(s) ==
  IF s # "" /\ IsSpaceCh(Ch(s, Len(s))) THEN RStrip(Slice(s, 1, Len(s) - 1)) ELSE s
StrStrip(s) == RStrip(LStrip(s))

\* str.isdigit(), str.isspace(), str.startswith()
StrIsDigit(s) ==
  s # "" /\ \A i \in 1..Len(s) : IsDigitCh(Ch(s, i)) \/ IsSuperscriptCh(Ch(s, i))
StrIsSpace(s) == s # "" /\ \A i \in 1..Len(s) : IsSpaceCh(Ch(s, i))
StartsWith(s, p) == Len(s) >= Len(p) /\ Slice(s, 1, Len(p)) = p

\* The value of a string of decimal digits ("" counts as 0).
RECURSIVE DigitsVal(_)
DigitsVal(s) ==
  IF s = "" THEN 0
  ELSE 10 * DigitsVal(Slice(s, 1, Len(s) - 1)) + DigitVal(Ch(s, Len(s)))

RECURSIVE Pow10(_)
Pow10(e) == IF e = 0 THEN 1 ELSE 10 * Pow10(e - 1)

\* A decimal m / 10^e in lowest form, so that equal floats are equal values.
RECURSIVE FloatNorm(_, _)
FloatNorm(m, e) ==
  IF e > 0 /\ m % 10 = 0 THEN FloatNorm(m \div 10, e - 1) ELSE PFloat(m, e)

\* int(s) for a string that passed isdigit(): a ValueError unless every
\* character is a decimal digit.
IntOfStr(s) ==
  IF \A i \in 1..Len(s) : IsDigitCh(Ch(s, i)) THEN PInt(DigitsVal(s))
  ELSE PRaise("ValueError")

(***************************************************************************)
(* float(s) for a str: surrounding whitespace is ignored, then an optional *)
(* sign and a decimal literal (digits, at most one point, at least one     *)
(* digit).  Anything else is a ValueError (ok = FALSE).  Exponents,        *)
(* underscores, inf and nan are outside the strings this model draws.      *)
(***************************************************************************)
FloatOfStr(s) ==
  LET body == StrStrip(s)
      neg == body # "" /\ Head(body) = "-"
      signed == body # "" /\ Head(body) \in {"-", "+"}
      num == IF signed THEN Tail(body) ELSE body
      dots == {i \in 1..Len(num) : Ch(num, i) = "."}
      dot == IF dots = {} THEN Len(num) + 1 ELSE CHOOSE i \in dots : TRUE
      ip == Slice(num, 1, dot - 1)
      fp == Slice(num, dot + 1, Len(num))
      wellFormed ==
        /\ Cardinality(dots) <= 1
        /\ Len(ip) + Len(fp) >= 1
        /\ \A i \in 1..Len(ip) : IsDigitCh(Ch(ip, i))
        /\ \A i \in 1..Len(fp) : IsDigitCh(Ch(fp, i))
      mag == DigitsVal(ip) * Pow10(Len(fp)) + DigitsVal(fp)
  IN IF wellFormed
     THEN [ok |-> TRUE, val |-> FloatNorm(IF neg THEN 0 - mag ELSE mag, Len(fp))]
     ELSE [ok |-> FALSE, val |-> PNull]

(***************************************************************************)
(* datetime: a naive or aware point in time is <<ordinal, second of day>>, *)
(* the ordinal being date.toordinal() (days since 0001-01-01).             *)
(***************************************************************************)
IsLeap(y) == (y % 4 = 0 /\ y % 100 # 0) \/ y % 400 = 0
DaysInMonth(y, m) ==
  CASE m \in {4, 6, 9, 11} -> 30
    [] m = 2 -> IF IsLeap(y) THEN 29 ELSE 28
    [] OTHER -> 31
RECURSIVE DaysBeforeMonth(_, _)
DaysBeforeMonth(y, m) ==
  IF m = 1 THEN 0 ELSE DaysBeforeMonth(y, m - 1) + DaysInMonth(y, m - 1)
ToOrdinal(y, m, d) ==
  365 * (y - 1) + ((y - 1) \div 4) - ((y - 1) \div 100) + ((y - 1) \div 400)
    + DaysBeforeMonth(y, m) + d

(***************************************************************************)
(* datetime.fromisoformat(s) for a str, over the forms                     *)
(*   YYYY-MM-DD, YYYY-MM-DD?HH:MM:SS, YYYY-MM-DD?HH:MM:SS+HH:MM            *)
(* (? is any one separator character).  ok = FALSE is a ValueError; aware  *)
(* says whether the result carries a UTC offset.  The other forms the      *)
(* library accepts are outside the strings this model draws.               *)
(***************************************************************************)
FromIsoFormat(s) ==
  LET n == Len(s)
      digitsAt(ps) == \A i \in ps : IsDigitCh(Ch(s, i))
      shape ==
        /\ n \in {10, 19, 25}
        /\ digitsAt({1, 2, 3, 4, 6, 7, 9, 10})
        /\ Ch(s, 5) = "-" /\ Ch(s, 8) = "-"
        /\ n >= 19 =>
             /\ digitsAt({12, 13, 15, 16, 18, 19})
             /\ Ch(s, 14) = ":" /\ Ch(s, 17) = ":"
        /\ n = 25 =>
             /\ Ch(s, 20) \in {"+", "-"}
             /\ digitsAt({21, 22, 24, 25})
             /\ Ch(s, 23) = ":"
      y == DigitsVal(Slice(s, 1, 4))
      m == DigitsVal(Slice(s, 6, 7))
      d == DigitsVal(Slice(s, 9, 10))
      hh == IF n >= 19 THEN DigitsVal(Slice(s, 12, 13)) ELSE 0
      mi == IF n >= 19 THEN DigitsVal(Slice(s, 15, 16)) ELSE 0
      ss == IF n >= 19 THEN DigitsVal(Slice(s, 18, 19)) ELSE 0
      oh == IF n = 25 THEN DigitsVal(Slice(s, 21, 22)) ELSE 0
      om == IF n = 25 THEN DigitsVal(Slice(s, 24, 25)) ELSE 0
      inRange ==
        /\ y >= 1 /\ m \in 1..12 /\ d >= 1 /\ d <= DaysInMonth(y, m)
        /\ hh <= 23 /\ mi <= 59 /\ ss <= 59 /\ oh <= 23 /\ om <= 59
  IN IF shape /\ inRange
     THEN [ok |-> TRUE, aware |-> n = 25,
           at |-> <<ToOrdinal(y, m, d), hh * 3600 + mi * 60 + ss>>]
     ELSE [ok |-> FALSE, aware |-> FALSE, at |-> <<0, 0>>]

\* now - created < timedelta(days=n), both naive.
AgeUnderDays(now, created, n) ==
  LET dd == now[1] - created[1]
      ds == now[2] - created[2]
  IN dd < n \/ (dd = n /\ ds < 0)

(***************************************************************************)
(* dict operations, items kept in insertion order.                         *)
(***************************************************************************)
DictHas(items, k) == \E i \in 1..Len(items) : items[i][1] = k
DictGet(items, k) == items[CHOOSE i \in 1..Len(items) : items[i][1] = k][2]
\* d[k] = val: an existing key keeps its place.
DictSet(items, k, val) ==
  IF DictHas(items, k)
  THEN [i \in 1..Len(items) |-> IF items[i][1] = k THEN <<k, val>> ELSE items[i]]
  ELSE Append(items, <<k, val>>)
DictKeys(items) == {items[i][1] : i \in 1..Len(items)}

(***************************************************************************)
(* _normalize_data                                                         *)
(***************************************************************************)
\* The coercion of one str value of a mapping, in the code's order of tests.
NormalizeStr(value) ==
  IF StrLower(value) \in {"true", "yes", "1"} THEN PBool(TRUE)
  ELSE IF StrLower(value) \in {"false", "no", "0"} THEN PBool(FALSE)
  ELSE IF StrIsDigit(value) THEN IntOfStr(value)
  ELSE IF FloatOfStr(value).ok THEN FloatOfStr(value).val
  ELSE PStr(StrLower(StrStrip(value)))

RECURSIVE _normalize_data(_)
RECURSIVE NormalizeItems(_, _)
\* The loop over data.items(): normalized[key.lower()] = ...
NormalizeItems(items, normalized) ==
  IF items = <<>> THEN PDict(normalized)
  ELSE LET key == items[1][1]
           value == items[1][2]
           nv == IF value.t = "str" THEN NormalizeStr(value.v)
                 ELSE IF value.t \in {"list", "dict"} THEN _normalize_data(value)
                 ELSE value
       IN IF nv.t = "raise" THEN nv
          ELSE NormalizeItems(Tail(items), DictSet(normalized, StrLower(key), nv))

\* [self._normalize_data(item) for item in data]: the list, or the first
\* exception an item raised.
NormalizeList(xs) ==
  IF \E i \in 1..Len(xs) : xs[i].t = "raise"
  THEN xs[CHOOSE i \in 1..Len(xs) :
            xs[i].t = "raise" /\ \A j \in 1..(i - 1) : xs[j].t # "raise"]
  ELSE PList(xs)

_normalize_data(data) ==
  IF data.t = "dict" THEN NormalizeItems(data.v, <<>>)
  ELSE IF data.t = "list"
  THEN NormalizeList([i \in 1..Len(data.v) |-> _normalize_data(data.v[i])])
  ELSE data

(***************************************************************************)
(* _should_include_dict and _filter_data.  now is datetime.now(), naive.   *)
(***************************************************************************)
\* float(x) of a payload value; ok = FALSE is the ValueError or TypeError.
FloatOf(x) ==
  CASE x.t = "str" -> FloatOfStr(x.v)
    [] x.t = "int" -> [ok |-> TRUE, val |-> PFloat(x.v, 0)]
    [] x.t = "bool" -> [ok |-> TRUE, val |-> PFloat(IF x.v THEN 1 ELSE 0, 0)]
    [] x.t = "float" -> [ok |-> TRUE, val |-> x]
    [] OTHER -> [ok |-> FALSE, val |-> PNull]

\* f >= 0.5 for a float m / 10^e.
AtLeastHalf(f) == 2 * f.v[1] >= Pow10(f.v[2])

StatusIn(item, names) ==
  DictGet(item, "status").t = "str" /\ DictGet(item, "status").v \in names

\* The created_at rule: "in" when it returns True, "out" when it returns
\* False, "pass" when the try block raises ValueError or TypeError.  The
\* subtraction datetime.now() - created sits inside the try block, and
\* raises TypeError when created carries a UTC offset.
CreatedAtRule(item, now) ==
  LET c == DictGet(item, "created_at")
      created == FromIsoFormat(c.v)
  IN IF c.t # "str" THEN "pass"
     ELSE IF ~created.ok THEN "pass"
     ELSE IF created.aware THEN "pass"
     ELSE IF AgeUnderDays(now, created.at, 365) THEN "in"
     ELSE "out"

\* The score rule, likewise.
ScoreRule(item) ==
  LET score == FloatOf(DictGet(item, "score"))
  IN IF ~score.ok THEN "pass"
     ELSE IF AtLeastHalf(score.val) THEN "in"
     ELSE "out"

_should_include_dict(item, now) ==
  IF DictHas(item, "status") /\ StatusIn(item, {"active", "enabled", "valid"})
  THEN TRUE
  ELSE IF DictHas(item, "status")
          /\ StatusIn(item, {"inactive", "disabled", "invalid"})
  THEN FALSE
  ELSE IF DictHas(item, "score") /\ ScoreRule(item) # "pass"
  THEN ScoreRule(item) = "in"
  ELSE IF DictHas(item, "created_at") /\ CreatedAtRule(item, now) # "pass"
  THEN CreatedAtRule(item, now) = "in"
  ELSE TRUE

\* item > 0 for an instance of int or float (bool included).
Positive(item) ==
  CASE item.t = "bool" -> item.v
    [] item.t = "int" -> item.v > 0
    [] OTHER -> item.v[1] > 0

\* Whether the loop of _filter_data appends item.
FilterKeeps(item, now) ==
  IF item.t = "dict" THEN _should_include_dict(item.v, now)
  ELSE IF item.t = "str" THEN Len(item.v) > 0 /\ ~StrIsSpace(item.v)
  ELSE IF IsNumberInstance(item) THEN Positive(item)
  ELSE TRUE

_filter_data(data, now) ==
  IF data.t = "list"
  THEN PList(SelectSeq(data.v, LAMBDA item : FilterKeeps(item, now)))
  ELSE data

(***************************************************************************)
(* _aggregate_data.  A number is compared and added as a decimal m / 10^e. *)
(***************************************************************************)
\* type(item).__name__
TypeName(item) == IF item.t = "null" THEN "NoneType" ELSE item.t

\* The decimal <<m, e>> of an instance of int or float.
Dec(item) ==
  CASE item.t = "bool" -> <<IF item.v THEN 1 ELSE 0, 0>>
    [] item.t = "int" -> <<item.v, 0>>
    [] OTHER -> item.v
DecLess(a, b) == a[1] * Pow10(b[2]) < b[1] * Pow10(a[2])
DecAdd(a, b) ==
  LET e == IF a[2] > b[2] THEN a[2] ELSE b[2]
  IN <<a[1] * Pow10(e - a[2]) + b[1] * Pow10(e - b[2]), e>>

\* The digits true division keeps in this model.
DivDigits == 6
\* a / n as a float.
DecDiv(a, n) == FloatNorm((a[1] * Pow10(DivDigits)) \div n, a[2] + DivDigits)

\* min() and max() return the first least or greatest element.
MinOf(xs) ==
  xs[CHOOSE i \in 1..Len(xs) :
       /\ \A j \in 1..Len(xs) : ~DecLess(Dec(xs[j]), Dec(xs[i]))
       /\ \A j \in 1..(i - 1) : DecLess(Dec(xs[i]), Dec(xs[j]))]
MaxOf(xs) ==
  xs[CHOOSE i \in 1..Len(xs) :
       /\ \A j \in 1..Len(xs) : ~DecLess(Dec(xs[i]), Dec(xs[j]))
       /\ \A j \in 1..(i - 1) : DecLess(Dec(xs[j]), Dec(xs[i]))]

RECURSIVE DecSum(_)
DecSum(xs) == IF xs = <<>> THEN <<0, 0>> ELSE DecAdd(DecSum(Tail(xs)), Dec(xs[1]))
\* sum() of numbers: an int unless a float takes part.
SumOf(xs) ==
  IF \E i \in 1..Len(xs) : xs[i].t = "float"
  THEN FloatNorm(DecSum(xs)[1], DecSum(xs)[2])
  ELSE PInt(DecSum(xs)[1])

RECURSIVE TotalLength(_)
TotalLength(ss) == IF ss = <<>> THEN 0 ELSE Len(ss[1].v) + TotalLength(Tail(ss))

RECURSIVE CountTypes(_, _)
\* result['types'][item_type] = result['types'].get(item_type, 0) + 1
CountTypes(xs, types) ==
  IF xs = <<>> THEN types
  ELSE LET n == IF DictHas(types, TypeName(xs[1]))
                THEN DictGet(types, TypeName(xs[1])).v ELSE 0
       IN CountTypes(Tail(xs), DictSet(types, TypeName(xs[1]), PInt(n + 1)))

\* An aggregation that raises instead of returning.
AggregateRaises(data) == PRaise("TypeError")

_aggregate_data(data) ==
  IF data.t # "list"
  THEN PDict(<< <<"error", PStr("Data must be a list for aggregation")>> >>)
  ELSE
    LET numeric_values == SelectSeq(data.v, IsNumberInstance)
        string_values == SelectSeq(data.v, LAMBDA item : item.t = "str")
        numeric_stats ==
          IF numeric_values = <<>> THEN PDict(<<>>)
          ELSE PDict(<< <<"min", MinOf(numeric_values)>>,
                        <<"max", MaxOf(numeric_values)>>,
                        <<"avg", DecDiv(DecSum(numeric_values), Len(numeric_values))>>,
                        <<"sum", SumOf(numeric_values)>> >>)
        string_stats ==
          IF string_values = <<>> THEN PDict(<<>>)
          ELSE PDict(<< <<"total_length", PInt(TotalLength(string_values))>>,
                        <<"avg_length",
                          DecDiv(<<TotalLength(string_values), 0>>, Len(string_values))>>,
                        <<"unique_count",
                          PInt(Cardinality({string_values[i].v :
                                              i \in 1..Len(string_values)}))>> >>)
    IN PDict(<< <<"count", PInt(Len(data.v))>>,
                <<"types", PDict(CountTypes(data.v, <<>>))>>,
                <<"numeric_stats", numeric_stats>>,
                <<"string_stats", string_stats>> >>)

(***************************************************************************)
(* _transform_data and its helpers.                                        *)
(***************************************************************************)
\* The end of the run of lower-case letters that starts at position i.
RECURSIVE LowerRunEnd(_, _)
LowerRunEnd(s, i) ==
  IF i < Len(s) /\ IsLowerCh(Ch(s, i + 1)) THEN LowerRunEnd(s, i + 1) ELSE i

\* re.sub('(.)([A-Z][a-z]+)', r'\1_\2', key)
RECURSIVE SubCapWord(_)
SubCapWord(s) ==
  IF s = "" THEN ""
  ELSE IF Len(s) >= 3 /\ Ch(s, 1) # "\n" /\ IsUpperCh(Ch(s, 2)) /\ IsLowerCh(Ch(s, 3))
  THEN LET k == LowerRunEnd(s, 3)
       IN Ch(s, 1) \o "_" \o Slice(s, 2, k) \o SubCapWord(Slice(s, k + 1, Len(s)))
  ELSE Head(s) \o SubCapWord(Tail(s))

\* re.sub('([a-z0-9])([A-Z])', r'\1_\2', s1)
RECURSIVE SubLowerUpper(_)
SubLowerUpper(s) ==
  IF s = "" THEN ""
  ELSE IF Len(s) >= 2 /\ (IsLowerCh(Ch(s, 1)) \/ IsDigitCh(Ch(s, 1)))
          /\ IsUpperCh(Ch(s, 2))
  THEN Ch(s, 1) \o "_" \o Ch(s, 2) \o SubLowerUpper(Slice(s, 3, Len(s)))
  ELSE Head(s) \o SubLowerUpper(Tail(s))

_transform_key(key) == StrLower(SubLowerUpper(SubCapWord(key)))

\* re.match of the three date patterns at the start of the string (the
\* third begins with the first).
_is_date_string(value) ==
  LET digitsAt(ps) == \A i \in ps : IsDigitCh(Ch(value, i))
  IN \/ /\ Len(value) >= 10
        /\ digitsAt({1, 2, 3, 4, 6, 7, 9, 10})
        /\ Ch(value, 5) = "-" /\ Ch(value, 8) = "-"
     \/ /\ Len(value) >= 10
        /\ digitsAt({1, 2, 4, 5, 7, 8, 9, 10})
        /\ Ch(value, 3) = "/" /\ Ch(value, 6) = "/"

\* datetime.fromisoformat(value).isoformat() of a string that parses.
IsoFormat(value) ==
  Slice(value, 1, 10) \o "T"
    \o (IF Len(value) >= 19 THEN Slice(value, 12, 19) ELSE "00:00:00")
    \o (IF Len(value) = 25 THEN Slice(value, 20, 25) ELSE "")

\* urlparse(url).netloc for an http or https URL: the text between "//" and
\* the next "/", "?" or "#"; an unbalanced bracket is a ValueError, which
\* the except clause turns into ''.
_extract_domain(url) ==
  LET start == IF StartsWith(url, "https://") THEN 9 ELSE 8
      stops == {i \in start..Len(url) : Ch(url, i) \in {"/", "?", "#"}}
      stop == IF stops = {} THEN Len(url) + 1
              ELSE CHOOSE i \in stops : \A j \in stops : i <= j
      netloc == Slice(url, start, stop - 1)
      has(c) == \E i \in 1..Len(netloc) : Ch(netloc, i) = c
  IN IF has("[") # has("]") THEN "" ELSE netloc

RECURSIVE _transform_data(_)
RECURSIVE _transform_value(_)
RECURSIVE TransformItems(_, _)
_transform_value(value) ==
  IF value.t = "str"
  THEN IF _is_date_string(value.v)
       THEN IF FromIsoFormat(value.v).ok THEN PStr(IsoFormat(value.v)) ELSE value
       ELSE IF StartsWith(value.v, "http://") \/ StartsWith(value.v, "https://")
       THEN PDict(<< <<"url", value>>, <<"domain", PStr(_extract_domain(value.v))>> >>)
       ELSE value
  ELSE IF value.t \in {"dict", "list"} THEN _transform_data(value)
  ELSE value
\* The loop over data.items(): transformed[new_key] = new_value
TransformItems(items, transformed) ==
  IF items = <<>> THEN transformed
  ELSE TransformItems(Tail(items),
         DictSet(transformed, _transform_key(items[1][1]), _transform_value(items[1][2])))
_transform_data(data) ==
  IF data.t = "dict" THEN PDict(TransformItems(data.v, <<>>))
  ELSE IF data.t = "list"
  THEN PList([i \in 1..Len(data.v) |-> _transform_data(data.v[i])])
  ELSE data

(***************************************************************************)
(* _default_processing                                                     *)
(***************************************************************************)
\* A fallback that normalizes.
DefaultNormalizes(data) == _normalize_data(data)

_default_processing(data) == data

(***************************************************************************)
(* _generate_cache_key: json.dumps(data, sort_keys=True, default=str),     *)
(* prefixed by the processing type and digested.                           *)
(***************************************************************************)
\* The characters of mapping keys in code-point order (str comparison).
Ascii == " -0123456789ABCDEFGHIJKLMNOPQRSTUVWXYZ_abcdefghijklmnopqrstuvwxyz"
CharCode(c) == CHOOSE i \in 1..Len(Ascii) : Ch(Ascii, i) = c
RECURSIVE StrLess(_, _)
StrLess(a, b) ==
  IF b = "" THEN FALSE
  ELSE IF a = "" THEN TRUE
  ELSE IF Head(a) = Head(b) THEN StrLess(Tail(a), Tail(b))
  ELSE CharCode(Head(a)) < CharCode(Head(b))

\* A serialization that keeps the items in insertion order.
Unsorted(items) == items

\* sort_keys=True: the items of a dict by ascending key.
RECURSIVE SortItems(_)
SortItems(items) ==
  IF items = <<>> THEN <<>>
  ELSE LET least == CHOOSE i \in 1..Len(items) :
                      \A j \in 1..Len(items) : j # i => StrLess(items[i][1], items[j][1])
           rest == [j \in 1..(Len(items) - 1) |->
                      IF j < least THEN items[j] ELSE items[j + 1]]
       IN <<items[least]>> \o SortItems(rest)

RECURSIVE IntToStr(_)
IntToStr(n) ==
  IF n < 0 THEN "-" \o IntToStr(0 - n)
  ELSE IF n < 10 THEN Ch(DigitChars, n + 1)
  ELSE IntToStr(n \div 10) \o Ch(DigitChars, (n % 10) + 1)

RECURSIVE ZeroPad(_, _)
ZeroPad(s, width) == IF Len(s) >= width THEN s ELSE ZeroPad("0" \o s, width)

\* repr of the float m / 10^e in positional notation.
FloatRepr(m, e) ==
  LET mag == IF m < 0 THEN 0 - m ELSE m
      frac == IF e = 0 THEN "0" ELSE ZeroPad(IntToStr(mag % Pow10(e)), e)
  IN (IF m < 0 THEN "-" ELSE "") \o IntToStr(mag \div Pow10(e)) \o "." \o frac

\* A JSON string literal: quotes and backslashes escaped, non-ASCII
\* characters written as \uXXXX (ensure_ascii).
RECURSIVE JsonEscape(_)
JsonEscape(s) ==
  IF s = "" THEN ""
  ELSE (CASE Head(s) = "\"" -> "\\\""
          [] Head(s) = "\\" -> "\\\\"
          [] Head(s) = "\n" -> "\\n"
          [] Head(s) = "\t" -> "\\t"
          [] Head(s) = "\r" -> "\\r"
          [] Head(s) = "¹" -> "\\u00b9"
          [] Head(s) = "²" -> "\\u00b2"
          [] Head(s) = "³" -> "\\u00b3"
          [] OTHER -> Head(s)) \o JsonEscape(Tail(s))
JsonStr(s) == "\"" \o JsonEscape(s) \o "\""

RECURSIVE json_dumps(_)
RECURSIVE JoinList(_)
RECURSIVE JoinItems(_)
JoinList(xs) ==
  IF xs = <<>> THEN ""
  ELSE json_dumps(xs[1]) \o (IF Len(xs) > 1 THEN ", " ELSE "") \o JoinList(Tail(xs))
JoinItems(items) ==
  IF items = <<>> THEN ""
  ELSE JsonStr(items[1][1]) \o ": " \o json_dumps(items[1][2])
         \o (IF Len(items) > 1 THEN ", " ELSE "") \o JoinItems(Tail(items))
json_dumps(x) ==
  CASE x.t = "null" -> "null"
    [] x.t = "bool" -> IF x.v THEN "true" ELSE "false"
    [] x.t = "int" -> IntToStr(x.v)
    [] x.t = "float" -> FloatRepr(x.v[1], x.v[2])
    [] x.t = "str" -> JsonStr(x.v)
    [] x.t = "list" -> "[" \o JoinList(x.v) \o "]"
    [] OTHER -> "{" \o JoinItems(SortItems(x.v)) \o "}"

\* hashlib.md5(...).hexdigest(), taken to be collision-free: the digest of
\* a text is the text, marked.
Md5Hex(text) == "md5<" \o text \o ">"

\* A key that leaves the operation out.
KeyWithoutType(data, processing_type) == Md5Hex(json_dumps(data))

_generate_cache_key(data, processing_type) ==
  Md5Hex(processing_type \o ":" \o json_dumps(data))

(***************************************************************************)
(* json.loads(text): a recursive-descent reading of JSON values (null,     *)
(* true, false, decimal numbers, strings with \" and \\ escapes, arrays,   *)
(* objects).  A reading is [ok, val, next]: ok = FALSE is the              *)
(* JSONDecodeError, next the position after the value.                     *)
(***************************************************************************)
JsonFail == [ok |-> FALSE, val |-> PNull, next |-> 0]
RECURSIVE SkipSpace(_, _)
SkipSpace(s, i) == IF i <= Len(s) /\ IsSpaceCh(Ch(s, i)) THEN SkipSpace(s, i + 1) ELSE i
RECURSIVE DigitRunEnd(_, _)
\* The position after the run of digits that starts at i.
DigitRunEnd(s, i) == IF i <= Len(s) /\ IsDigitCh(Ch(s, i)) THEN DigitRunEnd(s, i + 1) ELSE i

JsonNumber(s, i) ==
  LET start == IF Ch(s, i) = "-" THEN i + 1 ELSE i
      intEnd == DigitRunEnd(s, start)
      hasFrac == intEnd <= Len(s) /\ Ch(s, intEnd) = "."
      fracEnd == IF hasFrac THEN DigitRunEnd(s, intEnd + 1) ELSE intEnd
      mag == DigitsVal(Slice(s, start, intEnd - 1))
  IN IF intEnd = start \/ (hasFrac /\ fracEnd = intEnd + 1)
        \/ (intEnd - start > 1 /\ Ch(s, start) = "0")
     THEN JsonFail
     ELSE IF hasFrac
     THEN [ok |-> TRUE, next |-> fracEnd,
           val |-> FloatOfStr(Slice(s, i, fracEnd - 1)).val]
     ELSE [ok |-> TRUE, next |-> intEnd, val |-> PInt(IF start > i THEN 0 - mag ELSE mag)]

RECURSIVE JsonText(_, _, _)
\* The characters of a string literal from position i, after the opening quote.
JsonText(s, i, acc) ==
  IF i > Len(s) THEN JsonFail
  ELSE IF Ch(s, i) = "\"" THEN [ok |-> TRUE, val |-> PStr(acc), next |-> i + 1]
  ELSE IF Ch(s, i) = "\\"
  THEN IF i < Len(s) /\ Ch(s, i + 1) \in {"\"", "\\"}
       THEN JsonText(s, i + 2, acc \o Ch(s, i + 1))
       ELSE JsonFail
  ELSE IF Ch(s, i) \in {"\n", "\t", "\r"} THEN JsonFail
  ELSE JsonText(s, i + 1, acc \o Ch(s, i))

RECURSIVE JsonValue(_, _)
RECURSIVE JsonElements(_, _, _)
RECURSIVE JsonMembers(_, _, _)
\* The elements of an array from position i, after "[" or ",".
JsonElements(s, i, acc) ==
  LET e == JsonValue(s, i)
      j == SkipSpace(s, e.next)
  IN IF ~e.ok \/ j > Len(s) THEN JsonFail
     ELSE IF Ch(s, j) = "," THEN JsonElements(s, j + 1, Append(acc, e.val))
     ELSE IF Ch(s, j) = "]"
     THEN [ok |-> TRUE, val |-> PList(Append(acc, e.val)), next |-> j + 1]
     ELSE JsonFail
\* The members of an object from position i, after "{" or ",".
JsonMembers(s, i, acc) ==
  LET k0 == SkipSpace(s, i)
      k == IF k0 <= Len(s) /\ Ch(s, k0) = "\"" THEN JsonText(s, k0 + 1, "") ELSE JsonFail
      c == SkipSpace(s, k.next)
      e == IF k.ok /\ c <= Len(s) /\ Ch(s, c) = ":" THEN JsonValue(s, c + 1) ELSE JsonFail
      j == SkipSpace(s, e.next)
  IN IF ~e.ok \/ j > Len(s) THEN JsonFail
     ELSE IF Ch(s, j) = "," THEN JsonMembers(s, j + 1, DictSet(acc, k.val.v, e.val))
     ELSE IF Ch(s, j) = "}"
     THEN [ok |-> TRUE, val |-> PDict(DictSet(acc, k.val.v, e.val)), next |-> j + 1]
     ELSE JsonFail
JsonValue(s, i0) ==
  LET i == SkipSpace(s, i0)
      word(w, val) == IF Slice(s, i, i + Len(w) - 1) = w
                      THEN [ok |-> TRUE, val |-> val, next |-> i + Len(w)]
                      ELSE JsonFail
      c == Ch(s, i)
  IN IF i > Len(s) THEN JsonFail
     ELSE IF c = "n" THEN word("null", PNull)
     ELSE IF c = "t" THEN word("true", PBool(TRUE))
     ELSE IF c = "f" THEN word("false", PBool(FALSE))
     ELSE IF c = "\"" THEN JsonText(s, i + 1, "")
     ELSE IF c = "-" \/ IsDigitCh(c) THEN JsonNumber(s, i)
     ELSE IF c = "["
     THEN IF SkipSpace(s, i + 1) <= Len(s) /\ Ch(s, SkipSpace(s, i + 1)) = "]"
          THEN [ok |-> TRUE, val |-> PList(<<>>), next |-> SkipSpace(s, i + 1) + 1]
          ELSE JsonElements(s, i + 1, <<>>)
     ELSE IF c = "{"
     THEN IF SkipSpace(s, i + 1) <= Len(s) /\ Ch(s, SkipSpace(s, i + 1)) = "}"
          THEN [ok |-> TRUE, val |-> PDict(<<>>), next |-> SkipSpace(s, i + 1) + 1]
          ELSE JsonMembers(s, i + 1, <<>>)
     ELSE JsonFail

\* json.loads: one value, then nothing but whitespace.
json_loads(text) ==
  LET r == JsonValue(text, 1)
  IN IF r.ok /\ SkipSpace(text, r.next) > Len(text)
     THEN [ok |-> TRUE, val |-> r.val]
     ELSE [ok |-> FALSE, val |-> PNull]

(***************************************************************************)
(* The dispatcher.                                                         *)
(*                                                                         *)
(* Objects live in a heap, ref -> payload, so that the identity of a       *)
(* result is part of the state: a cache entry holds the ref of its result, *)
(* and the caller holds the refs of the containers it passed and received. *)
(***************************************************************************)
\* self.max_cache_size and self.cache_ttl, as the configuration gives them.
max_cache_size == 2
cache_ttl == 2
\* The clock stops at MaxClock seconds after construction.
MaxClock == 3

\* What callers pass to process_data.
Payloads ==
  { PNull,
    PStr("{"),
    PStr("[1]"),
    PList(<<PInt(1)>>),
    PDict(<< <<"A", PStr(" Yes ")>> >>) }
ProcessingTypes == {"normalize", "default"}

\* Further calls (SpecOps): the other routines and operation names, mappings
\* built in two insertion orders, a str that parses to a number, and a str
\* value that passes isdigit() without being an integer literal.
ThisWay == PDict(<< <<"A", PInt(1)>>, <<"b", PStr("x")>> >>)
ThatWay == PDict(<< <<"b", PStr("x")>>, <<"A", PInt(1)>> >>)
OpsCalls ==
  { <<ThisWay, "aggregate">>, <<ThatWay, "aggregate">>,
    <<ThisWay, "custom">>, <<ThatWay, "custom">>,
    <<PStr("7"), "default">>,
    <<PDict(<< <<"n", PStr("²")>> >>), "normalize">> }
AllPayloads == Payloads \cup {call[1] : call \in OpsCalls}
AllTypes == ProcessingTypes \cup {call[2] : call \in OpsCalls}

VARIABLES
  cache,    \* self.cache in iteration order: <<[key, data, timestamp], ...>>
  heap,     \* the live objects: ref -> payload
  held,     \* the containers the caller holds from its latest call: [input, ret]
  clock,    \* seconds since construction; datetime.now() reads it
  last,     \* the latest completed call, as the caller and a log would see it
  trial,    \* a routine applied on its own: its argument and what it gave
  threads   \* concurrent callers: each one's position in process_data and locals

vars == <<cache, heap, held, clock, last, trial, threads>>

NoRef == 0
\* datetime.now() when the clock reads t; the dispatcher was constructed at
\* midnight of 2026-11-02.
NowAt(t) == <<ToOrdinal(2026, 11, 2), t>>

(***************************************************************************)
(* The heap: allocation, and the renumbering that follows every call       *)
(* (objects no one refers to are dropped; refs are numbered in the order   *)
(* cache entries, caller's input, caller's result).                        *)
(***************************************************************************)
FreshRef(h) == CHOOSE r \in 1..(Cardinality(DOMAIN h) + 1) : r \notin DOMAIN h
Alloc(h, r, val) == [q \in DOMAIN h \cup {r} |-> IF q = r THEN val ELSE h[q]]

RefOrder(c, hd) == [i \in 1..Len(c) |-> c[i].data] \o <<hd.input, hd.ret>>
NewRefOf(order, r) ==
  IF r = NoRef THEN NoRef
  ELSE LET first == CHOOSE i \in 1..Len(order) :
                      order[i] = r /\ \A j \in 1..(i - 1) : order[j] # r
       IN Cardinality({order[j] : j \in 1..first} \ {NoRef})
Compact(c, h, hd) ==
  LET order == RefOrder(c, hd)
      live == {order[i] : i \in 1..Len(order)} \ {NoRef}
  IN [cache |-> [i \in 1..Len(c) |-> [c[i] EXCEPT !.data = NewRefOf(order, c[i].data)]],
      heap |-> [n \in 1..Cardinality(live) |->
                  h[CHOOSE r \in live : NewRefOf(order, r) = n]],
      held |-> [input |-> NewRefOf(order, hd.input), ret |-> NewRefOf(order, hd.ret)]]

\* What the store holds, by value: <<[key, result, timestamp], ...>>.
CacheView(c, h) ==
  [i \in 1..Len(c) |->
     [key |-> c[i].key, result |-> h[c[i].data], timestamp |-> c[i].timestamp]]

(***************************************************************************)
(* The cache operations of process_data.                                   *)
(***************************************************************************)
\* The position of key in the cache, 0 when absent (cache_key in self.cache).
Find(c, key) ==
  IF \E i \in 1..Len(c) : c[i].key = key
  THEN CHOOSE i \in 1..Len(c) : c[i].key = key
  ELSE 0
\* del self.cache[key] for the entry at position i.
Remove(c, i) == [j \in 1..(Len(c) - 1) |-> IF j < i THEN c[j] ELSE c[j + 1]]
\* A store that puts a new entry first.
PutFront(c, entry) == <<entry>> \o c

\* self.cache[key] = entry: a key already present keeps its place.
Put(c, entry) ==
  IF Find(c, entry.key) # 0
  THEN [c EXCEPT ![Find(c, entry.key)] = entry]
  ELSE Append(c, entry)

\* A freshness test that also accepts an entry of age exactly cache_ttl.
IsFreshInclusive(entry, now) == now - entry.timestamp <= cache_ttl

\* datetime.now() - cache_entry['timestamp'] < timedelta(seconds=self.cache_ttl)
IsFresh(entry, now) == now - entry.timestamp < cache_ttl

\* A scan that picks the entry inserted last.
NewestIndex(c) == Len(c)

\* min(self.cache.keys(), key=lambda k: self.cache[k]['timestamp']): the
\* first key, in iteration order, of the least timestamp.
OldestIndex(c) ==
  CHOOSE i \in 1..Len(c) :
    /\ \A j \in 1..Len(c) : c[i].timestamp <= c[j].timestamp
    /\ \A j \in 1..(i - 1) : c[j].timestamp > c[i].timestamp

\* An insert that never evicts.
StoreNoEvict(c, entry) == Put(c, entry)
\* An insert that forgets the entry.
StoreNothing(c, entry) == c

\* "Cache the result": the if / elif of lines 55-68.
Store(c, entry) ==
  IF Len(c) < max_cache_size THEN Put(c, entry)
  ELSE IF Len(c) >= max_cache_size THEN Put(Remove(c, OldestIndex(c)), entry)
  ELSE c

\* "Process based on type": the if / elif chain of lines 42-52.
Dispatch(processing_type, data, now) ==
  CASE processing_type = "normalize" -> _normalize_data(data)
    [] processing_type = "aggregate" -> _aggregate_data(data)
    [] processing_type = "filter" -> _filter_data(data, now)
    [] processing_type = "transform" -> _transform_data(data)
    [] OTHER -> _default_processing(data)

\* Whether the routine returns the very object it was given: the branches
\* that end in `return data`.
ReturnsArgument(processing_type, data) ==
  CASE processing_type \in {"normalize", "transform"} -> data.t \notin {"dict", "list"}
    [] processing_type = "aggregate" -> FALSE
    [] processing_type = "filter" -> data.t # "list"
    [] OTHER -> TRUE

IsContainer(x) == x.t \in {"list", "dict"}

(***************************************************************************)
(* The functions of the call's argument, tabulated over what callers pass: *)
(* json.loads of a str argument, the cache key, and the routine's result.  *)
(***************************************************************************)
Parsed ==
  [data \in AllPayloads |->
     IF data.t = "str" THEN json_loads(data.v) ELSE [ok |-> TRUE, val |-> data]]
\* The payloads that reach the cache lookup.
Accepted == {Parsed[data].val : data \in {p \in AllPayloads : Truthy(p) /\ Parsed[p].ok}}
CacheKey ==
  [obj \in Accepted, processing_type \in AllTypes |->
     _generate_cache_key(obj, processing_type)]
Processed ==
  [obj \in Accepted, processing_type \in AllTypes, t \in 0..MaxClock |->
     Dispatch(processing_type, obj, NowAt(t))]

\* __init__: an empty cache; no call made yet.
Constructed ==
  /\ cache = <<>>
  /\ heap = <<>>
  /\ held = [input |-> NoRef, ret |-> NoRef]
  /\ clock = 0
  /\ last = [kind |-> "init", data |-> PNull, processing_type |-> "", before |-> <<>>,
             at |-> 0, key |-> "", returned |-> PNull, ran |-> FALSE,
             prev |-> [kind |-> "none", at |-> 0, returned |-> PNull]]

\* No routine applied on its own.
NoTrial == [routine |-> "none", arg |-> PNull, value |-> PNull, steps |-> 0, prev |-> PNull]
\* A caller outside process_data, before its first call.
Idle == [pc |-> "idle", data |-> PNull, processing_type |-> "", cache_key |-> "",
         cache_entry |-> [data |-> PNull, timestamp |-> 0],
         processed_data |-> PNull, oldest_key |-> "", calls |-> 0, outcome |-> "none"]
Threads == {1, 2}

Init ==
  /\ Constructed
  /\ trial = NoTrial
  /\ threads = [t \in Threads |-> Idle]

(***************************************************************************)
(* process_data(data, processing_type), d seconds passing between the      *)
(* lookup and the store.                                                   *)
(***************************************************************************)
\* The object the caller passes (or json.loads builds) is new to the heap.
ArgRef == FreshRef(heap)
\* The caller keeps hold of a container it passed, and of one it received.
HeldArg(data) == IF IsContainer(data) THEN ArgRef ELSE NoRef
HeldRet(h, ref) == IF IsContainer(h[ref]) THEN ref ELSE NoRef

\* What a call remembers of the call before it, when that was a
\* process_data call with the same arguments; NoCall otherwise.
NoCall == [kind |-> "none", at |-> 0, returned |-> PNull]
Repeated(data, processing_type) ==
  IF /\ last.kind \in {"empty", "invalid", "hit", "miss"}
     /\ last.data = data
     /\ last.processing_type = processing_type
  THEN [kind |-> last.kind, at |-> last.at, returned |-> last.returned]
  ELSE NoCall

\* The record of a call: what it was given, the store before it, the time
\* of its lookup, the key it derived, what it returned, whether it ran a
\* routine, and the call before it.
Record(kind, data, processing_type, key, returned) ==
  [kind |-> kind, data |-> data, processing_type |-> processing_type,
   before |-> CacheView(cache, heap), at |-> clock, key |-> key,
   returned |-> returned, ran |-> kind \in {"miss", "raised"},
   prev |-> Repeated(data, processing_type)]

\* The call returns: the state it leaves and the record of it.
Return(kind, data, processing_type, c, h, hd, now, key, returned) ==
  /\ LET next == Compact(c, h, hd)
     IN /\ cache' = next.cache
        /\ heap' = next.heap
        /\ held' = next.held
  /\ clock' = now
  /\ last' = Record(kind, data, processing_type, key, returned)
  /\ UNCHANGED <<trial, threads>>

\* A rejection that also empties the store.
ReturnNoneCleared(kind, data, processing_type) ==
  Return(kind, data, processing_type, <<>>, heap,
         [input |-> HeldArg(data), ret |-> NoRef], clock, "", PNull)

\* Lines 19-28: nothing to process, or a str that is not JSON.
ReturnNone(kind, data, processing_type) ==
  Return(kind, data, processing_type, cache, heap,
         [input |-> HeldArg(data), ret |-> NoRef], clock, "", PNull)

\* A hit that also refreshes the entry's timestamp.
ReturnCachedRefreshed(data, processing_type, obj, key, i) ==
  Return("hit", data, processing_type, [cache EXCEPT ![i].timestamp = clock],
         Alloc(heap, ArgRef, obj),
         [input |-> HeldArg(data), ret |-> HeldRet(heap, cache[i].data)],
         clock, key, heap[cache[i].data])

\* Lines 35-36: return cache_entry['data'], the entry being at position i.
ReturnCached(data, processing_type, obj, key, i) ==
  Return("hit", data, processing_type, cache, Alloc(heap, ArgRef, obj),
         [input |-> HeldArg(data), ret |-> HeldRet(heap, cache[i].data)],
         clock, key, heap[cache[i].data])

\* Lines 54-70 with the result object at resRef in heap h: store it and
\* return it.
StoreAndReturn(data, processing_type, key, c, h, resRef, processed_data, d) ==
  /\ clock + d <= MaxClock
  /\ Return("miss", data, processing_type,
            Store(c, [key |-> key, data |-> resRef, timestamp |-> clock + d]),
            Alloc(h, resRef, processed_data),
            [input |-> HeldArg(data),
             ret |-> IF IsContainer(processed_data) THEN resRef ELSE NoRef],
            clock + d, key, processed_data)

\* Lines 43-52 when the routine raises: the exception leaves process_data,
\* with the cache as the lookup left it.
Raise(data, processing_type, key, c, h, processed_data) ==
  Return("raised", data, processing_type, c, h,
         [input |-> HeldArg(data), ret |-> NoRef], clock, key, processed_data)

\* Lines 41-70 with the argument object at ArgRef in heap h: the routine
\* raises, or returns its argument or a new object.
Miss(data, processing_type, obj, key, c, h, processed_data, d) ==
  IF processed_data.t = "raise"
  THEN Raise(data, processing_type, key, c, h, processed_data)
  ELSE StoreAndReturn(data, processing_type, key, c, h,
                      IF ReturnsArgument(processing_type, obj) THEN ArgRef
                      ELSE FreshRef(h),
                      processed_data, d)

\* Lines 30-70: the lookup at position i of the cache (0: the key is
\* absent), and what follows it.
Lookup(data, processing_type, obj, key, i, processed_data, d) ==
  IF i # 0 /\ IsFresh(cache[i], clock)
  THEN ReturnCached(data, processing_type, obj, key, i)
  ELSE Miss(data, processing_type, obj, key,
            IF i # 0 THEN Remove(cache, i) ELSE cache,
            Alloc(heap, ArgRef, obj), processed_data, d)

\* Lines 30-31 onwards, data being the payload after line 28.
Accept(data, processing_type, obj, key, d) ==
  Lookup(data, processing_type, obj, key, Find(cache, key),
         Processed[obj, processing_type, clock], d)

\* Lines 19-28, parsed being json.loads(data) for a str.
Validate(data, processing_type, parsed, d) ==
  IF ~Truthy(data) THEN ReturnNone("empty", data, processing_type)
  ELSE IF ~parsed.ok THEN ReturnNone("invalid", data, processing_type)
  ELSE Accept(data, processing_type, parsed.val, CacheKey[parsed.val, processing_type], d)

process_data(data, processing_type, d) ==
  Validate(data, processing_type, Parsed[data], d)

Process == \E data \in Payloads, processing_type \in ProcessingTypes, d \in {0, 1} :
             process_data(data, processing_type, d)

\* A clear that removes nothing.
ClearNothing ==
  /\ last' = Record("clear", PNull, "", "", PNull)
  /\ UNCHANGED <<cache, heap, held, clock, trial, threads>>

\* clear_cache()
clear_cache ==
  LET next == Compact(<<>>, heap, held)
  IN /\ cache' = next.cache
     /\ heap' = next.heap
     /\ held' = next.held
     /\ last' = Record("clear", PNull, "", "", PNull)
     /\ UNCHANGED <<clock, trial, threads>>

\* get_cache_stats()
get_cache_stats ==
  /\ last' = Record("stats", PNull, "", "",
                   PDict(<< <<"size", PInt(Len(cache))>>,
                            <<"max_size", PInt(max_cache_size)>>,
                            <<"ttl", PInt(cache_ttl)>>,
                            <<"keys", PList([i \in 1..Len(cache) |-> PStr(cache[i].key)])>> >>))
  /\ UNCHANGED <<cache, heap, held, clock, trial, threads>>

\* Time passes between calls.
Tick ==
  /\ clock < MaxClock
  /\ clock' = clock + 1
  /\ UNCHANGED <<cache, heap, held, last, trial, threads>>

Next == Process \/ clear_cache \/ get_cache_stats \/ Tick

Spec == Init /\ [][Next]_vars

\* The further calls, one after another and as time passes.
ProcessOps == \E call \in OpsCalls, d \in {0, 1} : process_data(call[1], call[2], d)

NextOps == ProcessOps \/ Tick

SpecOps == Init /\ [][NextOps]_vars

(***************************************************************************)
(* Properties of the sequential dispatcher (Spec).                         *)
(***************************************************************************)
ProcessKinds == {"empty", "invalid", "hit", "miss"}
\* The positions of the store `view` that hold `key`.
Holding(view, key) == {i \in 1..Len(view) : view[i].key = key}

\* C1: whenever a call has completed, the cache holds at most
\* max_cache_size entries.
CacheBound == Len(cache) <= max_cache_size
\* A miss on a full store has completed, and the store is still full.
CacheBoundWitness ==
  /\ last.kind = "miss"
  /\ Len(last.before) = max_cache_size
  /\ Len(cache) = max_cache_size

\* C2: a cached value is returned only when its entry's age at the lookup
\* is under cache_ttl; a call whose key has an entry of age >= cache_ttl is a
\* miss, the entry is replaced, and the result is stored with a timestamp
\* not before the lookup.
NeverStale ==
  /\ last.kind = "hit" =>
       \E i \in Holding(last.before, last.key) :
         /\ last.at - last.before[i].timestamp < cache_ttl
         /\ last.returned = last.before[i].result
  /\ (/\ last.kind \in ProcessKinds
      /\ \E i \in Holding(last.before, last.key) :
           last.at - last.before[i].timestamp >= cache_ttl) =>
       /\ last.kind = "miss"
       /\ last.ran
       /\ Cardinality(Holding(CacheView(cache, heap), last.key)) = 1
       /\ \A j \in Holding(CacheView(cache, heap), last.key) :
            /\ CacheView(cache, heap)[j].timestamp >= last.at
            /\ CacheView(cache, heap)[j].result = last.returned
\* A lookup found its entry at the age of exactly cache_ttl.
NeverStaleWitness ==
  /\ last.kind = "miss"
  /\ \E i \in Holding(last.before, last.key) :
       last.at - last.before[i].timestamp = cache_ttl

\* C3: a miss on a key the store does not hold removes exactly one entry,
\* one of the least timestamp, when the store holds max_cache_size entries,
\* and removes nothing when it holds fewer; the new entry is added.
EvictsOldest ==
  (last.kind = "miss" /\ Holding(last.before, last.key) = {}) =>
    \E ts \in last.at..MaxClock :
      LET entry == [key |-> last.key, result |-> last.returned, timestamp |-> ts]
      IN IF Len(last.before) = max_cache_size
         THEN \E j \in 1..Len(last.before) :
                /\ \A k \in 1..Len(last.before) :
                     last.before[j].timestamp <= last.before[k].timestamp
                /\ CacheView(cache, heap) = Append(Remove(last.before, j), entry)
         ELSE /\ Len(last.before) < max_cache_size
              /\ CacheView(cache, heap) = Append(last.before, entry)
\* A new key arrived at a full store whose entries differ in age.
EvictsOldestWitness ==
  /\ last.kind = "miss"
  /\ Holding(last.before, last.key) = {}
  /\ Len(last.before) = max_cache_size
  /\ \E i, j \in 1..Len(last.before) :
       last.before[i].timestamp < last.before[j].timestamp

\* C4, as stated: of two successive process calls with the same accepted
\* (data, operation), the second less than cache_ttl after the first, the
\* second is served from the cache and runs no routine.
TwiceRunsOnce ==
  (last.prev.kind \in {"hit", "miss"} /\ last.at - last.prev.at < cache_ttl) =>
    /\ last.kind = "hit"
    /\ ~last.ran
\* C4, amended: when the first of the two calls ran the routine (it was a
\* miss), the second is a hit: it runs no routine and returns what the first
\* returned.
TwiceRunsOnceAfterMiss ==
  (last.prev.kind = "miss" /\ last.at - last.prev.at < cache_ttl) =>
    /\ last.kind = "hit"
    /\ ~last.ran
    /\ last.returned = last.prev.returned
\* The second call came later than the first, within the window.
TwiceRunsOnceWitness ==
  /\ last.prev.kind = "miss"
  /\ last.kind = "hit"
  /\ last.at > last.prev.at
  /\ last.at - last.prev.at < cache_ttl

\* C7: a call with empty data, or with a str that is not JSON, returns None,
\* runs no routine and leaves the cache as it was.
RejectedLeavesCache ==
  last.kind \in {"empty", "invalid"} =>
    /\ last.returned = PNull
    /\ ~last.ran
    /\ CacheView(cache, heap) = last.before
\* A str that is not JSON was rejected while the store was full.
RejectedLeavesCacheWitness ==
  /\ last.kind = "invalid"
  /\ last.data.t = "str"
  /\ Len(last.before) = max_cache_size

(***************************************************************************)
(* The routines applied on their own (SpecRoutines): the argument is drawn *)
(* from the payloads below, and _normalize_data, _filter_data or           *)
(* _should_include_dict is applied to it, at the time the clock reads.     *)
(***************************************************************************)
MaxApplications == 2

StrValues == {" TRUE ", "yes", "No", "0", "12", " 12 ", "1.5", "-3", "abc", " Abc ", ""}
Scalars == {PNull, PBool(TRUE), PBool(FALSE), PInt(0), PInt(5), PInt(-3), PFloat(5, 1)}
Mappings ==
  {PDict(<< <<k, PStr(v)>> >>) : k \in {"a", "Key"}, v \in StrValues}
    \cup {PDict(<< <<"a", v>> >>) : v \in Scalars}
    \cup {PDict(<< <<"a", PList(<<PDict(<< <<"B", PStr(v)>> >>)>>)>> >>) : v \in {" Yes ", "7"}}
    \cup {PDict(<< <<"A", PStr(v)>>, <<"a", PStr(w)>> >>) : v, w \in {"1", "x "}}

StatusValues == {PStr("active"), PStr("disabled"), PStr("pending")}
ScoreValues == {PFloat(7, 1), PStr("0.2"), PStr("n/a"), PInt(1)}
CreatedAtValues ==
  {PStr("2026-01-01"), PStr("2025-11-02"), PStr("2020-01-01T00:00:00"),
   PStr("2020-01-01T00:00:00+00:00"), PStr("not a date"), PInt(5)}
\* The item <<name, value>> of a mapping, or no item when value is absent.
Field(name, value) == IF value = PNull THEN <<>> ELSE << <<name, value>> >>
Records ==
  {PDict(Field("status", st) \o Field("score", sc) \o Field("created_at", cr)) :
     st \in StatusValues \cup {PNull},
     sc \in ScoreValues \cup {PNull},
     cr \in CreatedAtValues \cup {PNull}}

Elements ==
  Scalars \cup {PStr(""), PStr("  "), PStr("x"), PList(<<>>),
                PDict(<< <<"status", PStr("active")>> >>),
                PDict(<< <<"status", PStr("disabled")>> >>)}
Lists == {PList(<<>>)} \cup {PList(<<e>>) : e \in Elements}
               \cup {PList(<<e, f>>) : e, f \in Elements}

RoutineInputs == Scalars \cup {PStr("x")} \cup Mappings \cup Records \cup Lists

InitRoutines ==
  /\ Constructed
  /\ threads = [t \in Threads |-> Idle]
  /\ trial \in {[routine |-> "none", arg |-> p, value |-> p, steps |-> 0, prev |-> p] :
                  p \in RoutineInputs}

\* One more application of the routine to what the trial holds.
Applied(routine, value) ==
  [routine |-> routine, arg |-> trial.arg, value |-> value,
   steps |-> trial.steps + 1, prev |-> trial.value]

\* _normalize_data(data), and again on its own result.
Normalize ==
  /\ trial.routine \in {"none", "normalize"}
  /\ trial.steps < MaxApplications
  /\ trial' = Applied("normalize", _normalize_data(trial.value))
  /\ UNCHANGED <<cache, heap, held, clock, last, threads>>

\* _filter_data(data)
Filter ==
  /\ trial.routine = "none"
  /\ trial' = Applied("filter", _filter_data(trial.arg, NowAt(clock)))
  /\ UNCHANGED <<cache, heap, held, clock, last, threads>>

\* _should_include_dict(item)
ShouldInclude ==
  /\ trial.routine = "none"
  /\ trial.arg.t = "dict"
  /\ trial' = Applied("include", PBool(_should_include_dict(trial.arg.v, NowAt(clock))))
  /\ UNCHANGED <<cache, heap, held, clock, last, threads>>

NextRoutines == Normalize \/ Filter \/ ShouldInclude

SpecRoutines == InitRoutines /\ [][NextRoutines]_vars

(***************************************************************************)
(* Properties of the routines (SpecRoutines).                              *)
(***************************************************************************)
\* Python's ==: numbers (bool included) by value, str by text, lists item
\* by item, dicts key by key whatever the order of insertion.
NumEq(a, b) == Dec(a)[1] * Pow10(Dec(b)[2]) = Dec(b)[1] * Pow10(Dec(a)[2])
RECURSIVE PyEq(_, _)
PyEq(a, b) ==
  IF IsNumberInstance(a) /\ IsNumberInstance(b) THEN NumEq(a, b)
  ELSE IF a.t # b.t THEN FALSE
  ELSE IF a.t = "list"
  THEN Len(a.v) = Len(b.v) /\ \A i \in 1..Len(a.v) : PyEq(a.v[i], b.v[i])
  ELSE IF a.t = "dict"
  THEN /\ DictKeys(a.v) = DictKeys(b.v)
       /\ \A k \in DictKeys(a.v) : PyEq(DictGet(a.v, k), DictGet(b.v, k))
  ELSE a.v = b.v

\* C8: normalize(normalize(p)) == normalize(p) for every payload p.
NormalizeIdempotent ==
  (trial.routine = "normalize" /\ trial.steps = 2) => PyEq(trial.value, trial.prev)
\* A second application changed a mapping's value.
NormalizeTwiceDiffers ==
  /\ trial.routine = "normalize"
  /\ trial.steps = 2
  /\ trial.arg = PDict(<< <<"a", PStr(" TRUE ")>> >>)
  /\ trial.prev = PDict(<< <<"a", PStr("true")>> >>)
  /\ trial.value = PDict(<< <<"a", PBool(TRUE)>> >>)

\* The element rule of filter as the specification words it: a mapping by
\* shouldIncludeDict, a string when non-empty and not all whitespace, a
\* number when strictly positive, anything else (null, a boolean, a nested
\* sequence) always.
KeptAsStated(e, now) ==
  CASE e.t = "dict" -> _should_include_dict(e.v, now)
    [] e.t = "str" -> e.v # "" /\ ~StrIsSpace(e.v)
    [] e.t \in {"int", "float"} -> Positive(e)
    [] OTHER -> TRUE
\* C9: filter returns, in order, exactly the elements its element rule
\* keeps, booleans among the always kept; a non-sequence comes back as is.
FilterAsStated ==
  trial.routine = "filter" =>
    trial.value = IF trial.arg.t = "list"
                  THEN PList(SelectSeq(trial.arg.v,
                                       LAMBDA e : KeptAsStated(e, NowAt(clock))))
                  ELSE trial.arg
\* filter dropped the boolean false.
FilterDropsFalse ==
  /\ trial.routine = "filter"
  /\ trial.arg = PList(<<PBool(FALSE)>>)
  /\ trial.value = PList(<<>>)

\* shouldIncludeDict as the specification words it: the first decisive rule
\* of status, score, created_at; a parseable created_at decides by its age.
IncludedAsStated(item, now) ==
  IF DictHas(item, "status") /\ StatusIn(item, {"active", "enabled", "valid"})
  THEN TRUE
  ELSE IF DictHas(item, "status")
          /\ StatusIn(item, {"inactive", "disabled", "invalid"})
  THEN FALSE
  ELSE IF DictHas(item, "score") /\ FloatOf(DictGet(item, "score")).ok
  THEN AtLeastHalf(FloatOf(DictGet(item, "score")).val)
  ELSE IF /\ DictHas(item, "created_at")
          /\ DictGet(item, "created_at").t = "str"
          /\ FromIsoFormat(DictGet(item, "created_at").v).ok
  THEN AgeUnderDays(now, FromIsoFormat(DictGet(item, "created_at").v).at, 365)
  ELSE TRUE
\* C10: shouldIncludeDict decides by the first decisive rule in the order
\* status, score, created_at, and includes when no rule decides.
IncludeAsStated ==
  trial.routine = "include" =>
    trial.value = PBool(IncludedAsStated(trial.arg.v, NowAt(clock)))
\* A mapping whose created_at parses, with a UTC offset, to a time over 365
\* days ago was included.
IncludesOldAware ==
  /\ trial.routine = "include"
  /\ trial.arg = PDict(<< <<"created_at", PStr("2020-01-01T00:00:00+00:00")>> >>)
  /\ trial.value = PBool(TRUE)

(***************************************************************************)
(* The dispatcher with a caller that changes, in place, the containers it  *)
(* holds: the argument it passed and the result it received (SpecAlias).   *)
(***************************************************************************)
\* The caller empties a list or dict it holds: x.clear().
CallerMutates ==
  \E ref \in {held.input, held.ret} \ {NoRef} :
    /\ Len(heap[ref].v) > 0
    /\ heap' = [heap EXCEPT ![ref] = [@ EXCEPT !.v = <<>>]]
    /\ UNCHANGED <<cache, held, clock, last, trial, threads>>

NextAlias == Next \/ CallerMutates

SpecAlias == Init /\ [][NextAlias]_vars

\* C5: no object a caller holds (its argument, its result) is the object a
\* cache entry stores, so a hit returns what the routine computed for its
\* key whatever the caller did to its own objects in between.
NotSharedByReference ==
  /\ \A i \in 1..Len(cache) : cache[i].data \notin {held.input, held.ret}
  /\ last.kind = "hit" =>
       \E t \in 0..MaxClock :
         last.returned = Processed[Parsed[last.data].val, last.processing_type, t]
\* A hit served the list the caller had emptied after the miss.
HitServesMutated ==
  /\ last.kind = "hit"
  /\ last.data = PList(<<PInt(1)>>)
  /\ last.processing_type = "default"
  /\ last.returned = PList(<<>>)

(***************************************************************************)
(* Concurrent callers (SpecConc).  The class holds no lock, so the threads *)
(* of a process interleave between any two operations on self.cache; each  *)
(* single dict operation (in, [], del, len, store, clear) is one step, and *)
(* the min-scan of lines 62-63 is taken as one step.  A thread's pc names  *)
(* the line it is about to execute.                                        *)
(***************************************************************************)
MaxCalls == 2

\* The thread leaves process_data: by return, or by an exception.
Leave(t, outcome) ==
  [Idle EXCEPT !.calls = threads[t].calls, !.outcome = outcome]
\* The cache after a thread wrote it, its heap compacted.
Written(c, h) == Compact(c, h, [input |-> NoRef, ret |-> NoRef])
SetCache(c, h) ==
  LET next == Written(c, h)
  IN /\ cache' = next.cache
     /\ heap' = next.heap
Frame == UNCHANGED <<held, clock, last, trial>>

\* Lines 15-31: validation, parsing and the key, all local to the thread.
Enter(t, data, processing_type, parsed) ==
  /\ threads[t].pc = "idle"
  /\ threads[t].calls < MaxCalls
  /\ threads' =
       [threads EXCEPT ![t] =
          IF ~Truthy(data) \/ ~parsed.ok
          THEN [Idle EXCEPT !.calls = threads[t].calls + 1, !.outcome = "none"]
          ELSE [Idle EXCEPT !.calls = threads[t].calls + 1,
                            !.pc = "contains",
                            !.data = parsed.val,
                            !.processing_type = processing_type,
                            !.cache_key = CacheKey[parsed.val, processing_type]]]
  /\ UNCHANGED <<cache, heap>>
  /\ Frame
Call(t) ==
  \E data \in Payloads, processing_type \in ProcessingTypes :
    Enter(t, data, processing_type, Parsed[data])

\* Lines 41-52: the routine runs, local to the thread; next is line 55.
Computed(t) ==
  [threads[t] EXCEPT !.pc = "room",
                     !.processed_data =
                        Processed[threads[t].data, threads[t].processing_type, clock]]

\* Line 32: if cache_key in self.cache
Contains(t) ==
  /\ threads[t].pc = "contains"
  /\ threads' =
       [threads EXCEPT ![t] =
          IF Find(cache, threads[t].cache_key) # 0
          THEN [threads[t] EXCEPT !.pc = "read"]
          ELSE Computed(t)]
  /\ UNCHANGED <<cache, heap>>
  /\ Frame

\* Line 33: cache_entry = self.cache[cache_key]
ReadEntry(t) ==
  /\ threads[t].pc = "read"
  /\ LET i == Find(cache, threads[t].cache_key)
     IN threads' =
          [threads EXCEPT ![t] =
             IF i = 0 THEN Leave(t, "KeyError")
             ELSE [threads[t] EXCEPT
                     !.pc = "ttl",
                     !.cache_entry = [data |-> heap[cache[i].data],
                                      timestamp |-> cache[i].timestamp]]]
  /\ UNCHANGED <<cache, heap>>
  /\ Frame

\* Lines 34-36: the freshness test, and the return of the cached data.
CheckTtl(t) ==
  /\ threads[t].pc = "ttl"
  /\ threads' =
       [threads EXCEPT ![t] =
          IF IsFresh(threads[t].cache_entry, clock)
          THEN Leave(t, "hit")
          ELSE [threads[t] EXCEPT !.pc = "expire"]]
  /\ UNCHANGED <<cache, heap>>
  /\ Frame

\* Line 39: del self.cache[cache_key]
Expire(t) ==
  /\ threads[t].pc = "expire"
  /\ LET i == Find(cache, threads[t].cache_key)
     IN IF i = 0
        THEN /\ threads' = [threads EXCEPT ![t] = Leave(t, "KeyError")]
             /\ UNCHANGED <<cache, heap>>
        ELSE /\ threads' = [threads EXCEPT ![t] = Computed(t)]
             /\ SetCache(Remove(cache, i), heap)
  /\ Frame

\* Line 55: if len(self.cache) < self.max_cache_size
CheckRoom(t) ==
  /\ threads[t].pc = "room"
  /\ threads' =
       [threads EXCEPT ![t] =
          [threads[t] EXCEPT !.pc = IF Len(cache) < max_cache_size
                                    THEN "insert" ELSE "full"]]
  /\ UNCHANGED <<cache, heap>>
  /\ Frame

\* Line 60: elif len(self.cache) >= self.max_cache_size; when neither test
\* passed, line 70 returns the result without storing it.
CheckFull(t) ==
  /\ threads[t].pc = "full"
  /\ threads' =
       [threads EXCEPT ![t] =
          IF Len(cache) >= max_cache_size
          THEN [threads[t] EXCEPT !.pc = "scan"]
          ELSE Leave(t, "unstored")]
  /\ UNCHANGED <<cache, heap>>
  /\ Frame

\* Lines 62-63: oldest_key = min(self.cache.keys(), key=...); min() of an
\* empty cache raises ValueError.
Scan(t) ==
  /\ threads[t].pc = "scan"
  /\ threads' =
       [threads EXCEPT ![t] =
          IF cache = <<>> THEN Leave(t, "ValueError")
          ELSE [threads[t] EXCEPT !.pc = "evict",
                                  !.oldest_key = cache[OldestIndex(cache)].key]]
  /\ UNCHANGED <<cache, heap>>
  /\ Frame

\* Line 64: del self.cache[oldest_key]
Evict(t) ==
  /\ threads[t].pc = "evict"
  /\ LET i == Find(cache, threads[t].oldest_key)
     IN IF i = 0
        THEN /\ threads' = [threads EXCEPT ![t] = Leave(t, "KeyError")]
             /\ UNCHANGED <<cache, heap>>
        ELSE /\ threads' = [threads EXCEPT ![t] = [threads[t] EXCEPT !.pc = "insert"]]
             /\ SetCache(Remove(cache, i), heap)
  /\ Frame

\* Lines 56-59 and 65-68: self.cache[cache_key] = {...}, then line 70.
Insert(t) ==
  /\ threads[t].pc = "insert"
  /\ SetCache(Put(cache, [key |-> threads[t].cache_key, data |-> FreshRef(heap),
                          timestamp |-> clock]),
              Alloc(heap, FreshRef(heap), threads[t].processed_data))
  /\ threads' = [threads EXCEPT ![t] = Leave(t, "stored")]
  /\ Frame

\* clear_cache() by a thread: self.cache.clear()
Clear(t) ==
  /\ threads[t].pc = "idle"
  /\ threads[t].calls < MaxCalls
  /\ cache # <<>>
  /\ SetCache(<<>>, heap)
  /\ threads' = [threads EXCEPT ![t] = [Idle EXCEPT !.calls = threads[t].calls + 1,
                                                    !.outcome = "cleared"]]
  /\ Frame

\* Time passes, whatever the threads are doing.
Elapse ==
  /\ clock < MaxClock
  /\ clock' = clock + 1
  /\ UNCHANGED <<cache, heap, held, last, trial, threads>>

Step(t) ==
  \/ Call(t) \/ Contains(t) \/ ReadEntry(t) \/ CheckTtl(t) \/ Expire(t)
  \/ CheckRoom(t) \/ CheckFull(t) \/ Scan(t) \/ Evict(t) \/ Insert(t) \/ Clear(t)

NextConc == (\E t \in Threads : Step(t)) \/ Elapse

SpecConc == Init /\ [][NextConc]_vars

\* C6: with concurrent callers the cache still holds at most
\* max_cache_size entries once their calls have completed.
ConcurrentBound ==
  (\A t \in Threads : threads[t].pc = "idle") => Len(cache) <= max_cache_size
\* Two callers each stored an entry after passing the size test on the same
\* cache, and left it over its bound.
BothStored ==
  /\ \A t \in Threads : threads[t].pc = "idle" /\ threads[t].outcome = "stored"
  /\ Len(cache) > max_cache_size

(***************************************************************************)
(* Properties of the further calls (SpecOps).                              *)
(***************************************************************************)
\* Structural equality of payloads: the same kind of value, lists item by
\* item, mappings key by key whatever the order of insertion.
RECURSIVE SameStructure(_, _)
SameStructure(a, b) ==
  IF a.t # b.t THEN FALSE
  ELSE IF a.t = "list"
  THEN Len(a.v) = Len(b.v) /\ \A i \in 1..Len(a.v) : SameStructure(a.v[i], b.v[i])
  ELSE IF a.t = "dict"
  THEN /\ Len(a.v) = Len(b.v)
       /\ DictKeys(a.v) = DictKeys(b.v)
       /\ \A k \in DictKeys(a.v) : SameStructure(DictGet(a.v, k), DictGet(b.v, k))
  ELSE a.v = b.v
\* The latest call got past validation: it returned a result or raised.
Answered == last.kind \in {"hit", "miss", "raised"}
\* The payload the latest call worked on: its argument, parsed when a str.
Worked == Parsed[last.data].val

ErrorShaped == PDict(<< <<"error", PStr("Data must be a list for aggregation")>> >>)
\* C11: "aggregate" on a non-empty payload that is not a sequence does not
\* raise; it returns the error-shaped result, which a miss writes to the
\* cache under the call's key and a hit serves.
AggregateErrorCached ==
  (Answered /\ last.processing_type = "aggregate" /\ Worked.t # "list") =>
    /\ last.kind # "raised"
    /\ last.returned = ErrorShaped
    /\ last.kind = "miss" =>
         \E i \in Holding(CacheView(cache, heap), last.key) :
           CacheView(cache, heap)[i].result = ErrorShaped
    /\ last.kind = "hit" =>
         \E i \in Holding(last.before, last.key) : last.before[i].result = ErrorShaped
\* The error-shaped result was served from the cache.
AggregateErrorServed ==
  /\ last.kind = "hit"
  /\ last.processing_type = "aggregate"
  /\ last.data = ThisWay
  /\ last.returned = ErrorShaped

\* C12: structurally equal payloads have the same key under the same
\* operation, so a call is a hit whenever the store holds a fresh entry for
\* a payload structurally equal to its own, and returns that entry's result.
KeyByStructure ==
  /\ \A p, q \in Accepted, processing_type \in AllTypes :
       SameStructure(p, q) => CacheKey[p, processing_type] = CacheKey[q, processing_type]
  /\ Answered =>
       \A q \in Accepted, i \in 1..Len(last.before) :
         (/\ SameStructure(q, Worked)
          /\ last.before[i].key = CacheKey[q, last.processing_type]
          /\ last.at - last.before[i].timestamp < cache_ttl) =>
           /\ last.kind = "hit"
           /\ last.returned = last.before[i].result
\* A call with a mapping built one way round was served the entry stored
\* for the mapping built the other way round.
OtherOrderServed ==
  /\ last.kind = "hit"
  /\ last.processing_type = "custom"
  /\ last.data = ThatWay
  /\ last.returned = ThisWay

\* C13: normalize never fails on a string value, whatever the string.
NormalizeNeverRaises ==
  last.processing_type = "normalize" => last.kind # "raised"
\* int() raised on a value that had passed isdigit(); nothing was cached.
NormalizeRaised ==
  /\ last.kind = "raised"
  /\ last.processing_type = "normalize"
  /\ last.data = PDict(<< <<"n", PStr("²")>> >>)
  /\ last.returned = PRaise("ValueError")
  /\ CacheView(cache, heap) = last.before

\* C14: under an operation name other than the four routines' names, a
\* call on a non-empty payload returns the payload (parsed, when a str).
OtherNamesPassThrough ==
  (/\ Answered
   /\ last.processing_type \notin {"normalize", "aggregate", "filter", "transform"}) =>
    /\ last.kind # "raised"
    /\ SameStructure(last.returned, Worked)
\* An unknown name returned the mapping it was given, and the default
\* name had returned the number its str argument parsed to.
UnknownNamePassedThrough ==
  /\ last.kind = "miss"
  /\ last.processing_type = "custom"
  /\ last.data = ThisWay
  /\ last.returned = ThisWay
  /\ \E i \in 1..Len(last.before) :
       /\ last.before[i].key = CacheKey[PInt(7), "default"]
       /\ last.before[i].result = PInt(7)

(***************************************************************************)
(* Further properties of the sequential dispatcher (Spec).                 *)
(***************************************************************************)
\* What get_cache_stats reports of an empty cache.
EmptyStats ==
  PDict(<< <<"size", PInt(0)>>, <<"max_size", PInt(max_cache_size)>>,
           <<"ttl", PInt(cache_ttl)>>, <<"keys", PList(<<>>)>> >>)
\* C15: clear_cache leaves the cache empty; get_cache_stats right after it
\* reports size 0, no keys and the configured max_size and ttl; and the
\* first process_data call after it that gets past validation is a miss
\* that runs the routine.
ClearEmpties ==
  [][/\ last'.kind = "clear" => cache' = <<>>
     /\ (last.kind = "clear" /\ last'.kind = "stats") => last'.returned = EmptyStats
     /\ (last.kind = "clear" /\ last'.kind \in {"hit", "miss", "raised"}) =>
          (last'.kind = "miss" /\ last'.ran)]_vars
\* A full cache was cleared.
ClearedFull ==
  /\ last.kind = "clear"
  /\ Len(last.before) = max_cache_size
  /\ cache = <<>>

\* C17: a hit leaves the store as it was, timestamps and order included,
\* and is served only while the entry's age is under cache_ttl.
HitIsPureRead ==
  last.kind = "hit" =>
    /\ CacheView(cache, heap) = last.before
    /\ \A i \in Holding(last.before, last.key) :
         /\ last.at - last.before[i].timestamp < cache_ttl
         /\ CacheView(cache, heap)[i].timestamp = last.before[i].timestamp
\* The oldest of several entries was hit some time after its insertion.
OldestWasHit ==
  /\ last.kind = "hit"
  /\ Len(last.before) > 1
  /\ last.before[1].key = last.key
  /\ last.at > last.before[1].timestamp

\* C18: the store's iteration order is non-decreasing in timestamp, and a
\* miss on a new key at a full store evicts the first entry in iteration
\* order, the earliest inserted of those that share the least timestamp.
FifoOrder ==
  /\ \A i, j \in 1..Len(cache) : i < j => cache[i].timestamp <= cache[j].timestamp
  /\ (/\ last.kind = "miss"
      /\ Holding(last.before, last.key) = {}
      /\ Len(last.before) = max_cache_size) =>
       /\ Len(cache) = max_cache_size
       /\ \A i \in 1..(max_cache_size - 1) :
            CacheView(cache, heap)[i] = last.before[i + 1]
       /\ cache[max_cache_size].key = last.key
\* Two entries shared the least timestamp and the earlier inserted went.
TieEvictsFirst ==
  /\ last.kind = "miss"
  /\ Holding(last.before, last.key) = {}
  /\ Len(last.before) = max_cache_size
  /\ last.before[1].timestamp = last.before[2].timestamp
  /\ CacheView(cache, heap)[1] = last.before[2]

\* C19: a hit returns a result the call's own operation computes on a
\* payload structurally equal to the call's, and every entry is stored
\* under the key of the operation and payload that computed its result.
IsolatedByOperation ==
  /\ last.kind = "hit" =>
       \E q \in Accepted, t \in 0..MaxClock :
         /\ SameStructure(q, Worked)
         /\ last.returned = Processed[q, last.processing_type, t]
  /\ \A i \in 1..Len(cache) :
       \E q \in Accepted, processing_type \in AllTypes, t \in 0..MaxClock :
         /\ cache[i].key = CacheKey[q, processing_type]
         /\ heap[cache[i].data] = Processed[q, processing_type, t]
         /\ \A r \in Accepted, other \in AllTypes :
              cache[i].key = CacheKey[r, other] =>
                (other = processing_type /\ SameStructure(r, q))
\* The same mapping was cached under two operations, with two results, and
\* the call was served its own operation's.
ServedOwnOperation ==
  /\ last.kind = "hit"
  /\ last.processing_type = "normalize"
  /\ last.data = PDict(<< <<"A", PStr(" Yes ")>> >>)
  /\ last.returned = PDict(<< <<"a", PStr("yes")>> >>)
  /\ \E i \in 1..Len(last.before) :
       /\ last.before[i].key = CacheKey[last.data, "default"]
       /\ last.before[i].result = last.data

(***************************************************************************)
(* Further properties of concurrent callers (SpecConc).                    *)
(***************************************************************************)
\* C16: no call fails with KeyError because another caller removed the
\* entry between this call's test or scan and its read or delete.
NoCallFails ==
  \A t \in Threads : threads[t].outcome # "KeyError"
\* A call raised KeyError while the other caller was also at work.
CallFailed ==
  \E t, u \in Threads :
    /\ threads[t].outcome = "KeyError"
    /\ threads[u].calls > 0
    /\ u # t
====
